---- MODULE Spec2Model ----
(***************************************************************************)
(* srap - the Shell Rc APpender (src/src/main.rs).                         *)
(*                                                                         *)
(* One run of the program: the command line, the environment (SHELL, HOME, *)
(* PATH) and the file system are the inputs, drawn in Init; main() is      *)
(* followed step by step: help check, parse_args, line assembly with the   *)
(* alias quoting, then the apply-to-all loop or the single-target branch.  *)
(* Strings are TLA+ strings, one character per byte (ASCII).               *)
(***************************************************************************)
EXTENDS Integers, Sequences, FiniteSets, TLC

VARIABLES
    pc,              \* position in main()
    args,            \* Vec<String> args (main.rs:118), mutated by parse_args
    config,          \* SrapConfig (main.rs:23-29)
    line_to_append,  \* main.rs:142
    config_files,    \* main.rs:159 (apply-to-all candidate list)
    idx,             \* position of the for loop of main.rs:172 (1-based)
    home_dir,        \* main.rs:167 / main.rs:216
    shell,           \* main.rs:210
    config_file,     \* main.rs:173 / config_file_path main.rs:224
    existing_config, \* main.rs:186 / main.rs:248
    fs,              \* the file system: path -> regular file
    env,             \* the process environment: SHELL, HOME, PATH
    out,             \* what was printed, in order
    status,          \* "running", "exit0" (main returned) or "panic"
    log,             \* accesses to target files, in order
    input            \* the run's inputs as drawn in Init (never changes)

vars == <<pc, args, config, line_to_append, config_files, idx, home_dir, shell,
          config_file, existing_config, fs, env, out, status, log, input>>

-----------------------------------------------------------------------------
(* Option values: Rust's Option / Result of a string or an index.          *)

None == [ok |-> FALSE, val |-> ""]

Some(v) == [ok |-> TRUE, val |-> v]

-----------------------------------------------------------------------------
(* std string and vector functions, by what they do.                       *)

\* str::starts_with
StartsWith(s, p) == Len(p) <= Len(s) /\ SubSeq(s, 1, Len(p)) = p

\* the 1-based places where p occurs in s
Occurrences(s, p) ==
    {i \in 1..(Len(s) - Len(p) + 1) : SubSeq(s, i, i + Len(p) - 1) = p}

\* str::contains
StrContains(s, p) == Occurrences(s, p) # {}

\* str::find: the byte offset (0-based) of the first occurrence
StrFind(s, p) ==
    IF Occurrences(s, p) = {} THEN [ok |-> FALSE, val |-> 0]
    ELSE Some((CHOOSE i \in Occurrences(s, p) :
                  \A j \in Occurrences(s, p) : i <= j) - 1)

\* String::insert(at, ch), for at <= len (a larger index panics)
StrInsert(s, at, ch) == SubSeq(s, 1, at) \o ch \o SubSeq(s, at + 1, Len(s))

\* str::replace(from, to): every non-overlapping occurrence, left to right
RECURSIVE StrReplace(_, _, _)
StrReplace(s, from, to) ==
    IF Len(s) = 0 THEN ""
    ELSE IF StartsWith(s, from)
         THEN to \o StrReplace(SubSeq(s, Len(from) + 1, Len(s)), from, to)
         ELSE SubSeq(s, 1, 1) \o StrReplace(SubSeq(s, 2, Len(s)), from, to)

\* [String]::join(sep)
RECURSIVE Join(_, _)
Join(v, sep) ==
    IF Len(v) = 0 THEN ""
    ELSE IF Len(v) = 1 THEN v[1]
         ELSE v[1] \o sep \o Join(Tail(v), sep)

\* Vec::contains
VecContains(v, t) == \E i \in 1..Len(v) : v[i] = t

\* Vec::remove(at), at 0-based and in range
VecRemove(v, at) == SubSeq(v, 1, at) \o SubSeq(v, at + 2, Len(v))

\* iter().position(|a| a.contains(p)), 0-based
PositionContaining(v, p) ==
    LET hits == {i \in 1..Len(v) : StrContains(v[i], p)}
    IN  IF hits = {} THEN [ok |-> FALSE, val |-> 0]
        ELSE Some((CHOOSE i \in hits : \A j \in hits : i <= j) - 1)

\* iter().position(|a| !a.starts_with(p)), 0-based
PositionNotStarting(v, p) ==
    LET hits == {i \in 1..Len(v) : ~StartsWith(v[i], p)}
    IN  IF hits = {} THEN [ok |-> FALSE, val |-> 0]
        ELSE Some((CHOOSE i \in hits : \A j \in hits : i <= j) - 1)

\* str::strip_prefix as used in the "Appending" notices
StripNewline(s) == IF StartsWith(s, "\n") THEN SubSeq(s, 2, Len(s)) ELSE ""

-----------------------------------------------------------------------------
(* Output and panics.                                                      *)

Notice(kind, text, colored) == [k |-> kind, a |-> text, c |-> colored]

Verbose(kind, text) == [k |-> kind, a |-> text, c |-> FALSE]

Running == [s |-> "running", msg |-> ""]

Exit0 == [s |-> "exit0", msg |-> ""]

Panic(m) == [s |-> "panic", msg |-> m]

-----------------------------------------------------------------------------
(* SrapConfig and parse_args.                                              *)

new_default ==
    [all |-> FALSE, dryrun |-> FALSE, file |-> "", nocolor |-> FALSE,
     verbose |-> FALSE]

\* the index of the filename: one past the first argument containing "-f"
FileArgIndex(a) == PositionContaining(a, "-f").val + 1

\* parse_args: the config, the arguments left, what it printed, and whether
\* it panicked (the index of line 61 is out of range)
parse_args(a) ==
    LET all     == VecContains(a, "-a") \/ VecContains(a, "--all")
        dryrun  == VecContains(a, "-d") \/ VecContains(a, "--dry-run")
        verbose == VecContains(a, "-v") \/ VecContains(a, "--verbose")
        hasFile == VecContains(a, "-f") \/ VecContains(a, "--file")
        found   == PositionContaining(a, "-f").ok
        at      == FileArgIndex(a)
        inRange == at < Len(a)
        a2      == IF hasFile /\ found /\ inRange THEN VecRemove(a, at) ELSE a
        file    == IF hasFile /\ found /\ inRange THEN a[at + 1] ELSE ""
        nocolor == VecContains(a2, "-n") \/ VecContains(a2, "--no-color")
    IN  [panic  |-> IF hasFile /\ ~found THEN "You must provide a filename!"
                    ELSE IF hasFile /\ ~inRange THEN "index out of bounds"
                    ELSE "",
         config |-> [all |-> all, dryrun |-> dryrun, file |-> file,
                     nocolor |-> nocolor, verbose |-> verbose],
         args   |-> a2,
         out    |-> IF hasFile /\ found /\ inRange /\ verbose
                    THEN <<Verbose("index", file)>> ELSE <<>>]

-----------------------------------------------------------------------------
(* The line to append and the alias quoting (main.rs:136-153).             *)

\* the fallback of line 150 when the line holds no '='
AliasFallback == 1992

\* a slip of line 136: the line starts at the first argument, flag or not
LineIndexFirst(a) == IF Len(a) > 0 THEN Some(0) ELSE [ok |-> FALSE, val |-> 0]

\* line 136: the index of the first argument that is no flag
LineIndex(a) == PositionNotStarting(a, "-")

\* args[line..args.len()].join(" ") behind a newline (line 143)
AssembleLine(a, line) == "\n" \o Join(SubSeq(a, line + 1, Len(a)), " ")

\* the condition of line 149
NeedsQuoting(l) == StrContains(l, "alias") /\ ~StrContains(l, "\"")

\* a slip of line 150: the quote goes before the '=' (the + 1 is missing)
AliasStartBefore(l) ==
    IF StrFind(l, "=").ok THEN StrFind(l, "=").val ELSE AliasFallback

\* another fallback for line 150: without '=' the quote goes to the end
AliasStartAtEnd(l) ==
    (IF StrFind(l, "=").ok THEN StrFind(l, "=").val ELSE Len(l) - 1) + 1

\* alias_start of line 150
AliasStart(l) ==
    (IF StrFind(l, "=").ok THEN StrFind(l, "=").val ELSE AliasFallback) + 1

\* lines 149-153: the line as appended, or None when String::insert panics
\* (an index past the end of the string)
AliasQuote(l) ==
    IF ~NeedsQuoting(l) THEN Some(l)
    ELSE IF AliasStart(l) > Len(l) THEN None
    ELSE Some(StrInsert(StrInsert(l, AliasStart(l), "\""), Len(l) + 1, "\""))

-----------------------------------------------------------------------------
(* The file system and the environment.                                    *)

File(c) == [content |-> c, readable |-> TRUE, writable |-> "yes"]

\* Path::is_file
IsFile(f, p) == p \in DOMAIN f

\* fs::read_to_string
ReadToString(f, p) ==
    IF IsFile(f, p) /\ f[p].readable THEN Some(f[p].content) ELSE None

\* fs::write: the file systems it may leave, each with whether it returned Ok.
\* A denied open leaves the file alone; an error while writing leaves a proper
\* prefix of the data in the truncated file.
FsWrite(f, p, data) ==
    IF ~IsFile(f, p)
    THEN {[ok |-> TRUE, fs |-> [q \in DOMAIN f \cup {p} |->
                                   IF q = p THEN File(data) ELSE f[q]]]}
    ELSE IF f[p].writable = "yes"
    THEN {[ok |-> TRUE, fs |-> [f EXCEPT ![p].content = data]]}
    ELSE IF f[p].writable = "denied"
    THEN {[ok |-> FALSE, fs |-> f]}
    ELSE {[ok |-> FALSE, fs |-> [f EXCEPT ![p].content = SubSeq(data, 1, n)]] :
             n \in 0..(Len(data) - 1)}

\* a slip of lines 198 and 259: the old content is dropped
NewConfigLineOnly(existing, line) == line

\* lines 198 and 259: the content written back
NewConfig(existing, line) == existing \o line

\* env::split_paths: the directories of PATH, split at ':'
RECURSIVE SplitPaths(_)
SplitPaths(p) ==
    IF ~StrContains(p, ":") THEN <<p>>
    ELSE <<SubSeq(p, 1, StrFind(p, ":").val)>>
         \o SplitPaths(SubSeq(p, StrFind(p, ":").val + 2, Len(p)))

\* Path::join of a directory and a relative name
PathJoin(dir, name) ==
    IF dir = "" THEN name
    ELSE IF SubSeq(dir, Len(dir), Len(dir)) = "/" THEN dir \o name
    ELSE dir \o "/" \o name

\* find_it: the first dir/exec_name of PATH that is a file, else ""
find_it(f, e, exec_name) ==
    IF ~e.PATH.ok THEN ""
    ELSE LET dirs == SplitPaths(e.PATH.val)
             hits == {i \in 1..Len(dirs) : IsFile(f, PathJoin(dirs[i], exec_name))}
         IN  IF hits = {} THEN ""
             ELSE PathJoin(dirs[CHOOSE i \in hits : \A j \in hits : i <= j],
                           exec_name)

\* the candidates of apply-to-all mode (lines 159-164)
PosixConfigFiles == <<"~/.bashrc", "~/.zshrc", "~/.nshrc", "~/.kshrc">>

\* a slip of line 164: the explicit file is put first, not pushed last
CandidateListFileFirst(cfg) ==
    (IF cfg.file # "" THEN <<cfg.file>> ELSE <<>>) \o PosixConfigFiles

\* lines 159-164: the fixed candidates, then the explicit file if given
CandidateList(cfg) ==
    PosixConfigFiles \o (IF cfg.file # "" THEN <<cfg.file>> ELSE <<>>)

\* lines 180 and 182 without the existence check
NeverSkipped(f, p) == FALSE

\* lines 180 and 182: a candidate that is no file is skipped
Skipped(f, p) == ~IsFile(f, p)

\* line 210 with a default in place of the panic: an unset SHELL reads ""
ShellVarOrEmpty(e) == IF e.SHELL.ok THEN e.SHELL ELSE Some("")

\* line 210: env::var("SHELL")
ShellVar(e) == e.SHELL

\* the if-chain of lines 225-243: the unexpanded path, or None (unsupported)
ShellConfigPath(f, e, cfg, sh) ==
    IF cfg.file # "" THEN Some(cfg.file)
    ELSE IF sh = find_it(f, e, "zsh") THEN Some("~/.zshrc")
    ELSE IF sh = find_it(f, e, "bash") THEN Some("~/.bashrc")
    ELSE IF sh = find_it(f, e, "nsh") THEN Some("~/.nshrc")
    ELSE IF sh = find_it(f, e, "ksh") THEN Some("~/.kshrc")
    ELSE IF sh = find_it(f, e, "fish") THEN Some("~/.config/fish/config.fish")
    ELSE IF sh = find_it(f, e, "ion") THEN Some(".config/ion/initrc")
    ELSE IF sh = find_it(f, e, "tcsh") THEN Some("~/.cshrc")
    ELSE None

\* an expansion of the leading ~ only, where lines 173 and 244 replace all
ExpandHomeLeading(p, home) ==
    IF StartsWith(p, "~") THEN home \o SubSeq(p, 2, Len(p)) ELSE p

\* the ~ expansion of lines 173 and 244
ExpandHome(p, home) == StrReplace(p, "~", home)

-----------------------------------------------------------------------------
(* main(), step by step.                                                   *)

HelpNotice == Notice("help", "", FALSE)

Stop(st) == /\ status' = st
            /\ pc' = "done"

\* lines 123-126: no argument, or -h / --help anywhere: help, and return
ShowHelp ==
    /\ pc = "start"
    /\ Len(args) = 0 \/ VecContains(args, "-h") \/ VecContains(args, "--help")
    /\ out' = Append(out, HelpNotice)
    /\ Stop(Exit0)
    /\ UNCHANGED <<args, config, line_to_append, config_files, idx, home_dir,
                   shell, config_file, existing_config, fs, env, log, input>>

\* lines 128-133: parse_args, the verbose echo and the dry-run notice
ParseArgs ==
    /\ pc = "start"
    /\ ~(Len(args) = 0 \/ VecContains(args, "-h") \/ VecContains(args, "--help"))
    /\ LET r == parse_args(args)
       IN  IF r.panic # ""
           THEN /\ Stop(Panic(r.panic))
                /\ UNCHANGED <<args, config, out>>
           ELSE /\ args' = r.args
                /\ config' = r.config
                /\ out' = out \o r.out
                          \o (IF r.config.verbose
                              THEN <<Verbose("args", Join(r.args, ","))>> ELSE <<>>)
                          \o (IF r.config.dryrun
                              THEN <<Notice("dryrun", "", ~r.config.nocolor)>>
                              ELSE <<>>)
                /\ pc' = "line"
                /\ UNCHANGED status
    /\ UNCHANGED <<line_to_append, config_files, idx, home_dir, shell,
                   config_file, existing_config, fs, env, log, input>>

\* lines 136-155: the first argument that is no flag starts the line; none:
\* help, and return. The line is assembled and alias-quoted.
BuildLine ==
    /\ pc = "line"
    /\ LET line == LineIndex(args)
       IN  IF ~line.ok
           THEN /\ out' = Append(out, HelpNotice)
                /\ Stop(Exit0)
                /\ UNCHANGED line_to_append
           ELSE LET q == AliasQuote(AssembleLine(args, line.val))
                IN  IF ~q.ok
                    THEN /\ line_to_append' = AssembleLine(args, line.val)
                         /\ Stop(Panic("insert: index out of range"))
                         /\ UNCHANGED out
                    ELSE /\ line_to_append' = q.val
                         /\ out' = out \o (IF config.verbose
                                           THEN <<Verbose("line", q.val)>>
                                           ELSE <<>>)
                         /\ pc' = "branch"
                         /\ UNCHANGED status
    /\ UNCHANGED <<args, config, config_files, idx, home_dir, shell,
                   config_file, existing_config, fs, env, log, input>>

\* HOME, or "" behind a warning (lines 167-170 and 216-219)
HomeDir(e) == IF e.HOME.ok THEN e.HOME.val ELSE ""

HomeWarning(e) == IF e.HOME.ok THEN <<>> ELSE <<Notice("nohome", "", FALSE)>>

\* lines 157-170: the candidate list and the home directory
AllSetup ==
    /\ pc = "branch"
    /\ config.all
    /\ config_files' = CandidateList(config)
    /\ home_dir' = HomeDir(env)
    /\ out' = out \o HomeWarning(env)
    /\ idx' = 1
    /\ pc' = "all_loop"
    /\ UNCHANGED <<args, config, line_to_append, shell, config_file,
                   existing_config, fs, env, status, log, input>>

\* lines 172-183: the next candidate, expanded; one that is no file is
\* reported and skipped
AllCheck ==
    /\ pc = "all_loop"
    /\ idx <= Len(config_files)
    /\ LET cf == ExpandHome(config_files[idx], home_dir)
       IN  /\ config_file' = cf
           /\ log' = Append(log, [op |-> "is_file", path |-> cf, at |-> idx])
           /\ IF Skipped(fs, cf)
              THEN /\ out' = out \o (IF config.verbose
                                     THEN <<Verbose("path", cf)>> ELSE <<>>)
                                 \o <<Notice("notfound", cf, ~config.nocolor)>>
                   /\ idx' = idx + 1
                   /\ pc' = "all_loop"
              ELSE /\ out' = out \o (IF config.verbose
                                     THEN <<Verbose("path", cf)>> ELSE <<>>)
                   /\ idx' = idx
                   /\ pc' = "all_read"
    /\ UNCHANGED <<args, config, line_to_append, config_files, home_dir, shell,
                   existing_config, fs, env, status, input>>

\* lines 186-195: read the candidate; a failure panics
AllRead ==
    /\ pc = "all_read"
    /\ log' = Append(log, [op |-> "read", path |-> config_file, at |-> idx])
    /\ LET r == ReadToString(fs, config_file)
       IN  IF ~r.ok
           THEN /\ Stop(Panic("couldnt read file"))
                /\ UNCHANGED <<existing_config, out>>
           ELSE /\ existing_config' = r.val
                /\ out' = Append(out, Notice("appending",
                                             StripNewline(line_to_append)
                                                 \o " to " \o config_file,
                                             ~config.nocolor))
                /\ pc' = "all_write"
                /\ UNCHANGED status
    /\ UNCHANGED <<args, config, line_to_append, config_files, idx, home_dir,
                   shell, config_file, fs, env, input>>

\* lines 198-206: unless dry-run, write the old content and the line back
AllWrite ==
    /\ pc = "all_write"
    /\ IF config.dryrun
       THEN /\ idx' = idx + 1
            /\ pc' = "all_loop"
            /\ UNCHANGED <<fs, status, log>>
       ELSE /\ log' = Append(log, [op |-> "write", path |-> config_file,
                                   at |-> idx])
            /\ \E w \in FsWrite(fs, config_file,
                                NewConfig(existing_config, line_to_append)) :
                  /\ fs' = w.fs
                  /\ IF w.ok
                     THEN /\ idx' = idx + 1
                          /\ pc' = "all_loop"
                          /\ UNCHANGED status
                     ELSE /\ Stop(Panic("writing file failed!"))
                          /\ UNCHANGED idx
    /\ UNCHANGED <<args, config, line_to_append, config_files, home_dir, shell,
                   config_file, existing_config, env, out, input>>

\* the for loop of line 172 is over
AllDone ==
    /\ pc = "all_loop"
    /\ idx > Len(config_files)
    /\ pc' = "finish"
    /\ UNCHANGED <<args, config, line_to_append, config_files, idx, home_dir,
                   shell, config_file, existing_config, fs, env, out, status,
                   log, input>>

\* lines 210-221: SHELL (unset: panic) and HOME
SingleEnv ==
    /\ pc = "branch"
    /\ ~config.all
    /\ IF ~ShellVar(env).ok
       THEN /\ Stop(Panic("couldn't interpret SHELL"))
            /\ UNCHANGED <<shell, home_dir, out>>
       ELSE /\ shell' = ShellVar(env).val
            /\ home_dir' = HomeDir(env)
            /\ out' = out \o HomeWarning(env)
                          \o (IF config.verbose
                              THEN <<Verbose("SHELL", ShellVar(env).val)>> ELSE <<>>)
            /\ pc' = "single_resolve"
            /\ UNCHANGED status
    /\ UNCHANGED <<args, config, line_to_append, config_files, idx,
                   config_file, existing_config, fs, env, log, input>>

\* lines 224-246: the config file of the explicit file or of the shell
SingleResolve ==
    /\ pc = "single_resolve"
    /\ LET p == ShellConfigPath(fs, env, config, shell)
       IN  IF ~p.ok
           THEN /\ Stop(Panic("Unsupported shell!"))
                /\ UNCHANGED <<config_file, out>>
           ELSE /\ config_file' = ExpandHome(p.val, home_dir)
                /\ out' = out \o (IF config.verbose
                                  THEN <<Verbose("path",
                                                 ExpandHome(p.val, home_dir))>>
                                  ELSE <<>>)
                /\ pc' = "single_read"
                /\ UNCHANGED status
    /\ UNCHANGED <<args, config, line_to_append, config_files, idx, home_dir,
                   shell, existing_config, fs, env, log, input>>

\* lines 248-257: read the target; a failure panics
SingleRead ==
    /\ pc = "single_read"
    /\ log' = Append(log, [op |-> "read", path |-> config_file, at |-> 0])
    /\ LET r == ReadToString(fs, config_file)
       IN  IF ~r.ok
           THEN /\ Stop(Panic("couldnt read file"))
                /\ UNCHANGED <<existing_config, out>>
           ELSE /\ existing_config' = r.val
                /\ out' = Append(out, Notice("appending",
                                             StripNewline(line_to_append)
                                                 \o " to " \o config_file,
                                             ~config.nocolor))
                /\ pc' = "single_write"
                /\ UNCHANGED status
    /\ UNCHANGED <<args, config, line_to_append, config_files, idx, home_dir,
                   shell, config_file, fs, env, input>>

\* lines 259-266: unless dry-run, write the old content and the line back
SingleWrite ==
    /\ pc = "single_write"
    /\ IF config.dryrun
       THEN /\ pc' = "finish"
            /\ UNCHANGED <<fs, status, log>>
       ELSE /\ log' = Append(log, [op |-> "write", path |-> config_file,
                                   at |-> 0])
            /\ \E w \in FsWrite(fs, config_file,
                                NewConfig(existing_config, line_to_append)) :
                  /\ fs' = w.fs
                  /\ IF w.ok
                     THEN /\ pc' = "finish"
                          /\ UNCHANGED status
                     ELSE Stop(Panic("writing file failed!"))
    /\ UNCHANGED <<args, config, line_to_append, config_files, idx, home_dir,
                   shell, config_file, existing_config, env, out, input>>

\* line 268: the success notice; main returns
Finish ==
    /\ pc = "finish"
    /\ out' = Append(out, Notice("success", "", ~config.nocolor))
    /\ Stop(Exit0)
    /\ UNCHANGED <<args, config, line_to_append, config_files, idx, home_dir,
                   shell, config_file, existing_config, fs, env, log, input>>

Next ==
    \/ ShowHelp
    \/ ParseArgs
    \/ BuildLine
    \/ AllSetup
    \/ AllCheck
    \/ AllRead
    \/ AllWrite
    \/ AllDone
    \/ SingleEnv
    \/ SingleResolve
    \/ SingleRead
    \/ SingleWrite
    \/ Finish

-----------------------------------------------------------------------------
(* The inputs of a run.                                                    *)

\* the longest command line of ArgInputs
MaxArgs == 3

Tokens ==
    {"-a", "-d", "-f", "--file", "-h", "-v", "-n",
     "hi", "alias", "l=s", "q\"", "x-f", "~/f"}

ArgLists == UNION {[1..k -> Tokens] : k \in 0..MaxArgs}

DefaultEnv ==
    [SHELL |-> Some("/bin/zsh"), HOME |-> Some("/h"), PATH |-> Some("/bin")]

Executables(paths) == [p \in paths |-> File("ELF")]

DefaultFs ==
    ("/h/.bashrc" :> File("b")) @@ ("/h/.zshrc" :> File("z"))
    @@ ("/h/.nshrc" :> File("n")) @@ ("/h/.kshrc" :> File("k"))
    @@ ("f" :> File("x")) @@ ("/h/f" :> File("y"))
    @@ Executables({"/bin/zsh"})

\* every command line up to MaxArgs tokens, in a usual environment
ArgInputs ==
    {[args |-> a, env |-> DefaultEnv, fs |-> DefaultFs] : a \in ArgLists}

\* every state of the candidates (missing, fine, unreadable, write denied,
\* write error), under the command lines that reach them
PosixPaths == {"/h/.bashrc", "/h/.zshrc", "/h/.nshrc", "/h/.kshrc"}

FileModes ==
    {[readable |-> TRUE, writable |-> "yes"],
     [readable |-> FALSE, writable |-> "yes"],
     [readable |-> TRUE, writable |-> "denied"],
     [readable |-> TRUE, writable |-> "ioerr"]}

FsStates(paths) ==
    UNION {{[p \in S |-> [content |-> DefaultFs[p].content,
                          readable |-> m[p].readable,
                          writable |-> m[p].writable]] : m \in [S -> FileModes]}
           : S \in SUBSET paths}

FsCases ==
    {[args |-> a, paths |-> PosixPaths] :
        a \in {<<"-a", "hi">>, <<"-a", "-d", "hi">>,
               <<"-a", "-f", "/h/.bashrc", "hi">>,
               <<"-a", "-n", "-f", "~/.zshrc", "alias", "l=s">>}}
    \cup {[args |-> <<"--all", "--file", "f", "hi">>,
           paths |-> PosixPaths \cup {"f"}]}
    \cup {[args |-> a, paths |-> {"/h/.zshrc"}] :
             a \in {<<"hi">>, <<"--dry-run", "hi">>}}
    \cup {[args |-> a, paths |-> {"f"}] :
             a \in {<<"-f", "f", "hi">>, <<"-v", "--no-color", "-f", "f", "hi">>}}

FsInputs ==
    UNION {{[args |-> c.args, env |-> DefaultEnv,
             fs |-> f @@ Executables({"/bin/zsh"})] : f \in FsStates(c.paths)}
           : c \in FsCases}

\* SHELL, HOME, PATH and the installed shells, with every config file there
EnvArgs ==
    {<<"hi">>, <<"-f", "f", "hi">>, <<"-f", "~/f", "hi">>, <<"-d", "-f", "a~b", "hi">>,
     <<"-a", "hi">>, <<"-a", "-f", "~/f", "hi">>}

ShellValues ==
    {None, Some("/bin/zsh"), Some("/usr/bin/zsh"), Some("zsh"),
     Some("/bin/bash"), Some("/bin/nsh"), Some("/bin/ksh"), Some("/bin/fish"),
     Some("/bin/ion"), Some("/bin/tcsh"), Some("/bin/sh")}

HomeValues == {None, Some("/h")}

PathValues == {None, Some("/bin"), Some("/usr/bin:/bin"), Some("/bin:/usr/bin")}

InstalledShells ==
    {{}, {"/bin/zsh"}, {"/bin/zsh", "/usr/bin/zsh"}, {"/usr/bin/zsh", "/bin/bash"},
     {"/bin/zsh", "/bin/bash", "/bin/nsh", "/bin/ksh", "/bin/fish", "/bin/ion",
      "/bin/tcsh"}}

ShellNames == {"zsh", "bash", "nsh", "ksh", "fish", "ion", "tcsh"}

ConfigPathOf ==
    [n \in ShellNames |->
        CASE n = "zsh" -> "~/.zshrc"
          [] n = "bash" -> "~/.bashrc"
          [] n = "nsh" -> "~/.nshrc"
          [] n = "ksh" -> "~/.kshrc"
          [] n = "fish" -> "~/.config/fish/config.fish"
          [] n = "ion" -> ".config/ion/initrc"
          [] n = "tcsh" -> "~/.cshrc"]

EnvFiles ==
    {ExpandHome(p, h) : p \in {ConfigPathOf[n] : n \in ShellNames}
                               \cup {"f", "~/f", "a~b"},
                        h \in {"", "/h"}}
    \cup {"~/f", "a~b"}

EnvInputs ==
    {[args |-> a,
      env |-> [SHELL |-> sh, HOME |-> h, PATH |-> pa],
      fs |-> [p \in EnvFiles |-> File("c")] @@ Executables(ex)] :
        a \in EnvArgs, sh \in ShellValues, h \in HomeValues, pa \in PathValues,
        ex \in InstalledShells}

\* initial contents and lines of one file
Contents == {"", "x", "export X=1", "x\n"}

ContentArgs ==
    {<<"-f", "f", "hi">>, <<"-d", "-f", "f", "hi">>, <<"-a", "-f", "f", "hi">>,
     <<"-f", "f", "export", "Y=2">>, <<"-f", "f", "alias", "ll=ls">>,
     <<"-a", "-d", "-f", "f", "export", "Y=2">>}

ContentInputs ==
    {[args |-> a, env |-> DefaultEnv,
      fs |-> ("f" :> File(c)) @@ DefaultFs] : a \in ContentArgs, c \in Contents}

\* n times "x"
RECURSIVE Pad(_)
Pad(n) ==
    IF n = 0 THEN ""
    ELSE IF n % 2 = 0 THEN Pad(n \div 2) \o Pad(n \div 2)
    ELSE "x" \o Pad(n - 1)

\* alias lines without '=' whose length is just below, at and above the
\* fallback index of line 150 (the line is "\n" and the token)
LongTokens ==
    {"alias" \o Pad(AliasFallback - k) : k \in {7, 6, 5, 4}}
    \cup {"alias=" \o Pad(AliasFallback - 7)}

LongInputs ==
    {[args |-> a, env |-> DefaultEnv, fs |-> DefaultFs] :
        a \in {<<t>> : t \in LongTokens} \cup {<<"-a", t>> : t \in LongTokens}
              \cup {<<"-d", t, "hi">> : t \in LongTokens}}

Inputs == ArgInputs \cup FsInputs \cup EnvInputs \cup ContentInputs \cup LongInputs

Init ==
    /\ input \in Inputs
    /\ args = input.args
    /\ env = input.env
    /\ fs = input.fs
    /\ pc = "start"
    /\ config = new_default
    /\ line_to_append = ""
    /\ config_files = <<>>
    /\ idx = 0
    /\ home_dir = ""
    /\ shell = ""
    /\ config_file = ""
    /\ existing_config = ""
    /\ out = <<>>
    /\ status = Running
    /\ log = <<>>

Spec == Init /\ [][Next]_vars

-----------------------------------------------------------------------------
(* Properties.                                                             *)

Done == pc = "done"

Printed(kind) == \E i \in 1..Len(out) : out[i].k = kind

\* the run went through to the success notice of line 268
Succeeded == Done /\ status.s = "exit0" /\ Printed("success")

Wrote == \E i \in 1..Len(log) : log[i].op = "write"

\* a line was assembled (it starts with a newline, so it is never empty)
LineBuilt == line_to_append # ""

\* the line as assembled at line 143, before the alias quoting
Assembled == AssembleLine(args, LineIndex(args).val)

RECURSIVE Repeat(_, _)
Repeat(s, k) == IF k = 0 THEN "" ELSE s \o Repeat(s, k - 1)

\* the files a successful run appended to, and how often each is a candidate
C1_Targets ==
    IF config.all
    THEN {ExpandHome(config_files[i], home_dir) : i \in 1..Len(config_files)}
         \cap DOMAIN input.fs
    ELSE {config_file}

C1_Times(p) ==
    IF config.all
    THEN Cardinality({i \in 1..Len(config_files) :
                         ExpandHome(config_files[i], home_dir) = p})
    ELSE 1

\* C1 as stated: after a successful run without alias quoting every target
\* file holds its old content C, then the newline and the line L; under
\* dry-run it holds C.
C1_Original ==
    (Succeeded /\ ~NeedsQuoting(Assembled)) =>
        \A p \in C1_Targets :
            fs[p].content = IF config.dryrun THEN input.fs[p].content
                            ELSE input.fs[p].content \o Assembled

\* C1 amended: after a successful run without alias quoting every target file
\* holds its old content followed by the newline and the line once per place
\* it takes in the candidate list (once in single-target mode, and once in
\* apply-to-all mode unless the explicit file is also one of the four fixed
\* candidates, which appends twice); under dry-run it holds its old content.
C1_Appended ==
    (Succeeded /\ ~NeedsQuoting(Assembled)) =>
        \A p \in C1_Targets :
            fs[p].content = IF config.dryrun THEN input.fs[p].content
                            ELSE input.fs[p].content
                                 \o Repeat(Assembled, C1_Times(p))

C1_Witness ==
    /\ Succeeded
    /\ ~config.dryrun
    /\ ~NeedsQuoting(Assembled)
    /\ Cardinality(C1_Targets) >= 2
    /\ \E p \in C1_Targets :
          /\ C1_Times(p) = 2
          /\ input.fs[p].content # ""
          /\ fs[p].content = input.fs[p].content \o Assembled \o Assembled
    /\ \E p \in C1_Targets :
          /\ C1_Times(p) = 1
          /\ fs[p].content = input.fs[p].content \o Assembled

AllFlags(a) == Len(a) > 0 /\ \A i \in 1..Len(a) : StartsWith(a[i], "-")

\* C2 as stated: a command line of flags only prints the help, returns
\* normally and changes no file.
C2_Original ==
    (AllFlags(input.args) /\ Done) =>
        /\ status.s = "exit0"
        /\ Printed("help")
        /\ fs = input.fs

\* -f or --file is given, no help is asked for, and the first argument that
\* contains "-f" is the last one: no filename follows it
C2_FilenameMissing(a) ==
    /\ ~(VecContains(a, "-h") \/ VecContains(a, "--help"))
    /\ VecContains(a, "-f") \/ VecContains(a, "--file")
    /\ \A i \in 1..(Len(a) - 1) : ~StrContains(a[i], "-f")

\* C2 amended: a command line of flags only changes and accesses no file and
\* never reaches the append; it prints the help and returns normally, unless
\* -f/--file is given (without -h/--help) and the first argument containing
\* "-f" is the last one: then the run panics on the missing filename.
C2_FlagsOnly ==
    AllFlags(input.args) =>
        /\ fs = input.fs
        /\ log = <<>>
        /\ pc \in {"start", "line", "done"}
        /\ Done => IF C2_FilenameMissing(input.args)
                   THEN status = Panic("index out of bounds")
                   ELSE status.s = "exit0" /\ Printed("help")

C2_Witness ==
    /\ Done
    /\ AllFlags(input.args)
    /\ Len(input.args) = 3
    /\ config.file # ""
    /\ config.dryrun
    /\ status.s = "exit0"
    /\ Printed("help")

HelpAsked(a) == VecContains(a, "-h") \/ VecContains(a, "--help")

HasFileFlag(a) == VecContains(a, "-f") \/ VecContains(a, "--file")

\* the place (1-based) of the first -f or --file
C3_FlagAt(a) ==
    CHOOSE i \in 1..Len(a) :
        /\ a[i] \in {"-f", "--file"}
        /\ \A j \in 1..(i - 1) : a[j] \notin {"-f", "--file"}

C3_Followed(a) == HasFileFlag(a) /\ C3_FlagAt(a) < Len(a)

\* the arguments without the flag and the path after it
C3_Residual(a) ==
    SubSeq(a, 1, C3_FlagAt(a) - 1) \o SubSeq(a, C3_FlagAt(a) + 2, Len(a))

\* the residual arguments from the first one that is no flag
C3_LineTokens(a) ==
    LET r == C3_Residual(a)
        first == {i \in 1..Len(r) : ~StartsWith(r[i], "-")}
    IN  IF first = {} THEN <<>>
        ELSE SubSeq(r, CHOOSE i \in first : \A j \in first : i <= j, Len(r))

\* C3 as stated: wherever -f/--file stands, if a token follows it, that token
\* is the explicit file, and neither the flag nor the path is part of the line.
C3_Claim ==
    (pc # "start" /\ ~HelpAsked(input.args) /\ C3_Followed(input.args)) =>
        /\ config.file = input.args[C3_FlagAt(input.args) + 1]
        /\ LineBuilt => Assembled = "\n" \o Join(C3_LineTokens(input.args), " ")

\* C4: a line with alias, without double-quote and with an '=' is appended
\* with one double-quote right after its first '=' and one at its end; a line
\* without alias, or with a double-quote, is appended as assembled. What a
\* single-target run writes is the old content followed by that text.
C4_AliasQuoting ==
    /\ LineBuilt =>
          IF /\ StrContains(Assembled, "alias")
             /\ ~StrContains(Assembled, "\"")
             /\ StrContains(Assembled, "=")
          THEN \E k \in 1..Len(Assembled) :
                  /\ SubSeq(Assembled, k, k) = "="
                  /\ \A j \in 1..(k - 1) : SubSeq(Assembled, j, j) # "="
                  /\ line_to_append =
                        SubSeq(Assembled, 1, k) \o "\""
                        \o SubSeq(Assembled, k + 1, Len(Assembled)) \o "\""
          ELSE (~StrContains(Assembled, "alias") \/ StrContains(Assembled, "\""))
                  => line_to_append = Assembled
    /\ (pc = "finish" /\ ~config.all /\ ~config.dryrun) =>
          fs[config_file].content =
              input.fs[config_file].content \o line_to_append

C4_Witness ==
    /\ Succeeded
    /\ ~config.dryrun
    /\ Assembled = "\nalias ll=ls"
    /\ line_to_append = "\nalias ll=\"ls\""
    /\ fs["f"].content = input.fs["f"].content \o "\nalias ll=\"ls\""

\* the case of C10: alias, no double-quote, no '=', shorter than 1993 bytes
C10_Case ==
    /\ LineBuilt
    /\ StrContains(Assembled, "alias")
    /\ ~StrContains(Assembled, "\"")
    /\ ~StrContains(Assembled, "=")
    /\ Len(Assembled) < 1993

\* C10: such a line makes the insertion at index 1993 panic before any target
\* is resolved, read or written: no file changes, in either mode, and the
\* success notice is not printed.
C10_AliasPanic ==
    C10_Case =>
        /\ Done
        /\ status = Panic("insert: index out of range")
        /\ fs = input.fs
        /\ log = <<>>
        /\ config_files = <<>>
        /\ config_file = ""
        /\ ~Printed("success")

C10_Witness ==
    /\ C10_Case
    /\ Done
    /\ config.all
    /\ Len(Assembled) = 1992
    /\ status.s = "panic"

\* p with each '~' replaced by h, character by character
RECURSIVE TildeExpanded(_, _)
TildeExpanded(p, h) ==
    IF p = "" THEN ""
    ELSE (IF SubSeq(p, 1, 1) = "~" THEN h ELSE SubSeq(p, 1, 1))
         \o TildeExpanded(SubSeq(p, 2, Len(p)), h)

\* the candidates of apply-to-all mode as the claims name them, in order
Candidates ==
    <<"~/.bashrc", "~/.zshrc", "~/.nshrc", "~/.kshrc">>
    \o (IF config.file # "" THEN <<config.file>> ELSE <<>>)

CandidatePath(i) == TildeExpanded(Candidates[i], HomeDir(env))

Existing == {i \in 1..Len(Candidates) : CandidatePath(i) \in DOMAIN input.fs}

Modified ==
    {p \in DOMAIN fs \cup DOMAIN input.fs :
        \/ p \notin DOMAIN input.fs
        \/ p \notin DOMAIN fs
        \/ fs[p] # input.fs[p]}

\* the run is in, or went through, the apply-to-all branch of line 157
InAllMode == config.all /\ config_files # <<>>

\* C5: an apply-to-all run without dry-run whose existing candidates are all
\* readable and writable ends with the success notice, has modified exactly
\* the existing candidates, created no file and printed one "not found"
\* notice per missing candidate.
C5_ApplyToAll ==
    (/\ InAllMode
     /\ ~config.dryrun
     /\ \A i \in Existing : /\ input.fs[CandidatePath(i)].readable
                            /\ input.fs[CandidatePath(i)].writable = "yes")
    => /\ status.s # "panic"
       /\ DOMAIN fs = DOMAIN input.fs
       /\ Done =>
            /\ Succeeded
            /\ Modified = {CandidatePath(i) : i \in Existing}
            /\ Cardinality({k \in 1..Len(out) : out[k].k = "notfound"})
                  = Len(Candidates) - Cardinality(Existing)
            /\ \A i \in (1..Len(Candidates)) \ Existing :
                  \E k \in 1..Len(out) : /\ out[k].k = "notfound"
                                         /\ out[k].a = CandidatePath(i)

C5_Witness ==
    /\ Succeeded
    /\ InAllMode
    /\ ~config.dryrun
    /\ config.file = ""
    /\ Existing = {1}
    /\ Modified = {"/h/.bashrc"}
    /\ Cardinality({k \in 1..Len(out) : out[k].k = "notfound"}) = 3

\* the supported shell names that occur in a SHELL value
C6_Names(sh) == {n \in ShellNames : StrContains(sh, n)}

\* C6 as stated: without explicit file the target of a single-target run is
\* the config path of a supported shell whose name occurs in SHELL, whatever
\* PATH holds; the run aborts as unsupported only if no supported name occurs.
C6_Claim ==
    (~config.all /\ config.file = "" /\ env.SHELL.ok) =>
        /\ pc = "single_read" =>
              \E n \in C6_Names(env.SHELL.val) :
                  config_file = TildeExpanded(ConfigPathOf[n], HomeDir(env))
        /\ status.msg = "Unsupported shell!" => C6_Names(env.SHELL.val) = {}

\* the case of C7: SHELL unset, a line given, no -a/--all, no -f/--file (and
\* no help asked for)
C7_Case ==
    /\ ~env.SHELL.ok
    /\ ~HelpAsked(input.args)
    /\ ~HasFileFlag(input.args)
    /\ ~(VecContains(input.args, "-a") \/ VecContains(input.args, "--all"))
    /\ \E i \in 1..Len(input.args) : ~StartsWith(input.args[i], "-")

\* C7: with SHELL unset, in single-target mode without explicit file, the run
\* ends in a panic and at no point has a file been written or created.
C7_ShellUnset ==
    C7_Case =>
        /\ fs = input.fs
        /\ ~Wrote
        /\ log = <<>>
        /\ Done => status.s = "panic"
        /\ pc \in {"start", "line", "branch", "done"}

C7_Witness ==
    /\ C7_Case
    /\ Done
    /\ status = Panic("couldn't interpret SHELL")
    /\ LineBuilt
    /\ fs = input.fs

\* C8 as stated: in single-target mode the explicit file is read and written
\* under exactly the path given.
C8_Original ==
    (~config.all /\ config.file # "" /\ env.SHELL.ok) =>
        \A i \in 1..Len(log) : log[i].path = config.file

\* C8 amended: in single-target mode with an explicit file (and SHELL set) the
\* path read and written is the explicit file with every '~' replaced by the
\* value of HOME (by nothing when HOME is unset), so it is the path as given
\* exactly when that holds no '~'; it does not depend on SHELL, which is never
\* rejected as unsupported.
C8_ExplicitFile ==
    (~config.all /\ config.file # "" /\ env.SHELL.ok) =>
        /\ \A i \in 1..Len(log) :
              log[i].path = TildeExpanded(config.file, HomeDir(env))
        /\ pc \in {"single_write", "finish"} =>
              config_file = TildeExpanded(config.file, HomeDir(env))
        /\ pc \in {"single_write", "finish"} => Len(log) >= 1
        /\ status.msg # "Unsupported shell!"

C8_Witness ==
    /\ Succeeded
    /\ ~config.all
    /\ config.file = "~/f"
    /\ env.SHELL = Some("/bin/sh")
    /\ env.HOME = Some("/h")
    /\ log = <<[op |-> "read", path |-> "/h/f", at |-> 0],
               [op |-> "write", path |-> "/h/f", at |-> 0]>>
    /\ Modified = {"/h/f"}

\* how often p is a candidate before place i
TimesBefore(p, i) ==
    Cardinality({j \in 1..(i - 1) : CandidatePath(j) = p})

\* C9, the order: the candidates are taken one at a time in the order bash,
\* zsh, nsh, ksh, explicit file; each is checked, read and (unless dry-run)
\* written before the next is touched.
C9_InOrder ==
    config.all =>
        /\ \A i \in 1..Len(log) :
              /\ log[i].at \in 1..Len(Candidates)
              /\ log[i].path = CandidatePath(log[i].at)
        /\ Len(log) > 0 => (log[1].at = 1 /\ log[1].op = "is_file")
        /\ \A i \in 1..(Len(log) - 1) :
              \/ /\ log[i + 1].at = log[i].at
                 /\ <<log[i].op, log[i + 1].op>>
                       \in {<<"is_file", "read">>, <<"read", "write">>}
              \/ /\ log[i + 1].at = log[i].at + 1
                 /\ log[i + 1].op = "is_file"
                 /\ \/ log[i].op = "write"
                    \/ log[i].op = "is_file"
                          /\ CandidatePath(log[i].at) \notin DOMAIN input.fs
                    \/ log[i].op = "read" /\ config.dryrun

\* C9, the failure: when the read or write of the candidate at place i fails,
\* the run ends there without the success notice; every other file holds its
\* old content and the line once per place it takes before i (nothing under
\* dry-run), so the earlier candidates keep what was appended and the later
\* ones are untouched.
C9_AbortsInPlace ==
    (config.all /\ Done
        /\ status.msg \in {"couldnt read file", "writing file failed!"}) =>
        LET i == log[Len(log)].at
        IN  /\ ~Printed("success")
            /\ log[Len(log)].op \in {"read", "write"}
            /\ DOMAIN fs = DOMAIN input.fs
            /\ \A p \in DOMAIN input.fs :
                  p # CandidatePath(i) =>
                      fs[p].content =
                          IF config.dryrun THEN input.fs[p].content
                          ELSE input.fs[p].content
                               \o Repeat(line_to_append, TimesBefore(p, i))

\* C9: in apply-to-all mode the candidates are handled one at a time in the
\* order bash, zsh, nsh, ksh, explicit file, each checked, read and (unless
\* dry-run) written before the next is touched; when the read or write of the
\* candidate at place i fails the run aborts there: the candidates before i
\* keep what was appended (no rollback), none after i is read or modified,
\* and the success notice is not printed.
C9_Sequential == C9_InOrder /\ C9_AbortsInPlace

C9_Witness ==
    /\ Done
    /\ config.all
    /\ ~config.dryrun
    /\ status = Panic("writing file failed!")
    /\ log[Len(log)].at = 3
    /\ {"/h/.bashrc", "/h/.zshrc", "/h/.kshrc"} \subseteq DOMAIN input.fs
    /\ fs["/h/.bashrc"].content = input.fs["/h/.bashrc"].content \o line_to_append
    /\ fs["/h/.zshrc"].content = input.fs["/h/.zshrc"].content \o line_to_append
    /\ fs["/h/.kshrc"] = input.fs["/h/.kshrc"]

====
